---- MODULE Spec2Model ----
(***************************************************************************)
(* ResQLink emergency lifecycle: the route handlers of                     *)
(* src/src/supabase/functions/make-server/index.tsx over the key-value     *)
(* store.  A stored JSON object is a function from field names to values;  *)
(* a field the code never wrote is absent from the DOMAIN.  Every handler  *)
(* is a sequence of steps, one per awaited kv.get / kv.set; Spec runs a    *)
(* handler to completion in one action, SpecC runs the steps of several    *)
(* requests interleaved.                                                   *)
(* SpecHook is the polling hook of src/unnamed/part_000 and SpecAuth the    *)
(* session provider of src/unnamed/part_003, each on its own.              *)
(* Not tracked: hospital name, address and phone, description, notes,      *)
(* estimatedTime, createdAt/updatedAt and the *ConfirmedArrivalAt /        *)
(* *ConfirmedCompletionAt stamps; none of them is read by a handler.       *)
(***************************************************************************)
EXTENDS Integers, Sequences, FiniteSets, TLC

VARIABLES kv, clock, slots, offPath, hook, auth

vars == <<kv, clock, slots, offPath, hook, auth>>

\* ------------------------------------------------------------------ bounds
MaxClock == 1
TickMinutes == 30
NumSlots == 2
MaxOffPath == 1
\* the waiting times, in minutes, at which a claim tries a timeout-advance
MaxElapsed == 31

\* --------------------------------------------------------------- constants
TIMEOUT_MINUTES == 30

Patients == {"p1"}
Ambulances == {"a1", "a2"}
Hospitals == {"h1", "h2"}
Users == Patients \cup Ambulances \cup Hospitals
Anonymous == "anon"
Callers == Users \cup {Anonymous}

EmergencyIds == {"emergency:1"}

Statuses ==
  {"pending", "assigned", "enroute", "arrived_at_scene", "patient_loaded",
   "enroute_to_hospital", "arrived_at_hospital", "completed", "cancelled"}

Omitted == ""

\* user.user_metadata.role, fixed at signup
RoleOf(u) ==
  IF u \in Ambulances THEN "ambulance"
  ELSE IF u \in Hospitals THEN "hospital" ELSE "patient"

ACTIVE == "emergencies:active"

UserKey(u) == "user:" \o u

\* ------------------------------------------------------ JSON objects, store
EmptyObj == <<>>

Has(o, f) == f \in DOMAIN o

Put(o, f, v) == (f :> v) @@ o

\* a || b on request parameters
Or(a, b) == IF a = Omitted THEN b ELSE a

\* the profile written by signup
SignupProfile(u) ==
  [id |-> u, role |-> RoleOf(u),
   status |-> IF RoleOf(u) = "ambulance" THEN "available" ELSE "active"]

Now == clock * TickMinutes

Get(db, k) == IF Has(db, k) THEN db[k] ELSE EmptyObj

\* ------------------------------------------------- one request in progress
\* todo: the awaited store operations still ahead of the handler;
\* em, prof, act: the handler's local copies; seen: the status of the record
\* as the handler read it; result: "" while running.
Begin(req) ==
  [op |-> req.op, id |-> req.id, user |-> req.user,
   arg |-> req.arg, arg2 |-> req.arg2,
   todo |-> <<"start">>, em |-> EmptyObj, prof |-> EmptyObj, act |-> <<>>,
   seen |-> "", result |-> ""]

Idle ==
  [op |-> "idle", id |-> "", user |-> "", arg |-> "", arg2 |-> "",
   todo |-> <<>>, em |-> EmptyObj, prof |-> EmptyObj, act |-> <<>>,
   seen |-> "", result |-> ""]

\* return c.json({ error }, 4xx)
Reply(db, l, result) ==
  [kv |-> db, l |-> [l EXCEPT !.todo = <<>>, !.result = result]]

\* go on with the remaining awaits; none left: return c.json({ success: true })
Goto(db, l, todo) ==
  [kv |-> db,
   l |-> [l EXCEPT !.todo = todo, !.result = IF todo = <<>> THEN "ok" ELSE ""]]

IsTerminal(status) == status \in {"completed", "cancelled"}

\* "Remove from active emergencies" + "Update ambulance status to available"
ReleasePlan(em) ==
  <<"getActive", "setActive">> \o
  (IF Has(em, "ambulanceId") THEN <<"getAmbulance", "setAmbulance">> ELSE <<>>)

\* --------------------------------------------------- POST /emergency
\* user.user_metadata.name, user.user_metadata.phone, user.email
MetadataName(u) == "name:" \o u

MetadataPhone(u) == "phone:" \o u

Email(u) == u \o "@mail"

\* latitude, longitude of the request body: where the caller's device is
DevicePosition(u) == <<"lat:" \o u, "lng:" \o u>>

StartCreate(db, l, now) ==
  IF l.user = Anonymous THEN Reply(db, l, "Unauthorized")
  ELSE LET emergency ==
             [id |-> l.id, patientId |-> l.user,
              patientName |-> Or(l.arg, MetadataName(l.user)),
              patientPhone |-> Or(l.arg2, MetadataPhone(l.user)),
              patientEmail |-> Email(l.user),
              latitude |-> DevicePosition(l.user)[1],
              longitude |-> DevicePosition(l.user)[2],
              status |-> "pending"]
       IN  Goto(Put(db, l.id, emergency), [l EXCEPT !.em = emergency],
                <<"getActive", "setActive">>)

\* --------------------------------------------------- GET /emergencies/active
\* the records of the ids in the active list that resolve and are not terminal
ListActive(db, user) ==
  IF user = Anonymous THEN [result |-> "Unauthorized", emergencies |-> <<>>]
  ELSE IF RoleOf(user) \notin {"hospital", "ambulance"}
  THEN [result |-> "Forbidden", emergencies |-> <<>>]
  ELSE LET emergencyIds == IF Has(db, ACTIVE) THEN db[ACTIVE] ELSE <<>>
           listed == SelectSeq(emergencyIds,
                               LAMBDA id : Has(db, id) /\ ~IsTerminal(db[id].status))
       IN  [result |-> "ok",
            emergencies |-> [i \in DOMAIN listed |-> db[listed[i]]]]

\* --------------------------------------------------- POST /emergency/:id/assign
AssignMutate_MovesRequest(em, ambulanceId, hospitalId, user, now) ==
  Put(Put(Put(Put(Put(Put(em, "status", "assigned"),
                      "ambulanceId", Or(ambulanceId, user)),
                  "hospitalId", Or(hospitalId, user)),
              "assignedAt", now),
          "latitude", DevicePosition(Or(ambulanceId, user))[1]),
      "longitude", DevicePosition(Or(ambulanceId, user))[2])

AssignMutate(em, ambulanceId, hospitalId, user, now) ==
  Put(Put(Put(Put(em, "status", "assigned"),
              "ambulanceId", Or(ambulanceId, user)),
          "hospitalId", Or(hospitalId, user)),
      "assignedAt", now)

StartAssign(db, l, now) ==
  IF l.user = Anonymous THEN Reply(db, l, "Unauthorized")
  ELSE IF ~Has(db, l.id) THEN Reply(db, l, "NotFound")
  ELSE Goto(db, [l EXCEPT !.em = AssignMutate(db[l.id], l.arg, l.arg2, l.user, now)],
            <<"getHospital", "setEmergency", "getAmbulance", "setAmbulance">>)

\* "Default to Mount Sinai Hospital, NYC"
DefaultLatitude == "40.7829"

DefaultLongitude == "-73.9654"

\* "Populate hospital details for navigation"
StepGetHospital(db, l, now) ==
  LET hospitalProfile == Get(db, UserKey(Or(l.arg2, l.user)))
      hospital ==
        [id |-> hospitalProfile.id,
         latitude |-> IF Has(hospitalProfile, "latitude")
                      THEN hospitalProfile.latitude ELSE DefaultLatitude,
         longitude |-> IF Has(hospitalProfile, "longitude")
                       THEN hospitalProfile.longitude ELSE DefaultLongitude]
  IN  IF Has(hospitalProfile, "role") /\ hospitalProfile.role = "hospital"
      THEN Goto(db, [l EXCEPT !.em = Put(l.em, "hospital", hospital)],
                Tail(l.todo))
      ELSE Goto(db, l, Tail(l.todo))

\* --------------------------------------------------- PATCH /emergency/:id/status
StatusMutate(em, status, now) ==
  LET e1 == Put(em, "status", status)
      e2 == IF status = "arrived_at_scene"
            THEN Put(Put(e1, "arrivedAtSceneAt", now),
                     "awaitingPatientConfirmation", TRUE)
            ELSE e1
      e3 == IF status = "arrived_at_hospital"
            THEN Put(Put(e2, "arrivedAtHospitalAt", now),
                     "awaitingPatientConfirmation", TRUE)
            ELSE e2
      e4 == IF IsTerminal(status) THEN Put(e3, "completedAt", now) ELSE e3
  IN  e4

StartStatus(db, l, now) ==
  IF l.user = Anonymous THEN Reply(db, l, "Unauthorized")
  ELSE IF ~Has(db, l.id) THEN Reply(db, l, "NotFound")
  ELSE LET emergency == StatusMutate(db[l.id], l.arg, now)
       IN  Goto(db, [l EXCEPT !.em = emergency],
                IF IsTerminal(l.arg)
                THEN ReleasePlan(emergency) \o <<"setEmergency">>
                ELSE <<"setEmergency">>)

\* --------------------------------------------------- POST /emergency/:id/confirm-arrival
ConfirmArrivalMutate_KeepsAwaiting(em, now) ==
  Put(Put(Put(em, "patientConfirmedArrival", TRUE),
          "status", "patient_loaded"),
      "patientLoadedAt", now)

ConfirmArrivalMutate(em, now) ==
  Put(Put(Put(Put(em, "patientConfirmedArrival", TRUE),
              "awaitingPatientConfirmation", FALSE),
          "status", "patient_loaded"),
      "patientLoadedAt", now)

StartConfirmArrival(db, l, now) ==
  IF l.user = Anonymous THEN Reply(db, l, "Unauthorized")
  ELSE IF ~Has(db, l.id) THEN Reply(db, l, "NotFound")
  ELSE IF db[l.id].patientId # l.user THEN Reply(db, l, "Forbidden")
  ELSE IF db[l.id].status # "arrived_at_scene" THEN Reply(db, l, "WrongState")
  ELSE Goto(db, [l EXCEPT !.em = ConfirmArrivalMutate(db[l.id], now)],
            <<"setEmergency">>)

\* --------------------------------------------------- POST /emergency/:id/confirm-completion
ConfirmCompletionMutate(em, now) ==
  Put(Put(Put(Put(em, "patientConfirmedCompletion", TRUE),
              "awaitingPatientConfirmation", FALSE),
          "status", "completed"),
      "completedAt", now)

StartConfirmCompletion(db, l, now) ==
  IF l.user = Anonymous THEN Reply(db, l, "Unauthorized")
  ELSE IF ~Has(db, l.id) THEN Reply(db, l, "NotFound")
  ELSE IF /\ db[l.id].patientId # l.user
          /\ ~(Has(db[l.id], "hospitalId") /\ db[l.id].hospitalId = l.user)
       THEN Reply(db, l, "Forbidden")
  ELSE IF db[l.id].status # "arrived_at_hospital" THEN Reply(db, l, "WrongState")
  ELSE LET emergency == ConfirmCompletionMutate(db[l.id], now)
       IN  Goto(db, [l EXCEPT !.em = emergency],
                <<"setEmergency">> \o ReleasePlan(emergency))

\* --------------------------------------------------- POST /emergency/:id/timeout-advance
TimeoutSceneMutate_Consent(em, now) ==
  Put(Put(Put(Put(Put(Put(em, "patientConfirmedArrival", TRUE),
                      "autoAdvanced", TRUE),
                  "autoAdvancedReason", "Patient confirmation timeout after 30 minutes"),
              "awaitingPatientConfirmation", FALSE),
          "status", "patient_loaded"),
      "patientLoadedAt", now)

TimeoutSceneMutate(em, now) ==
  Put(Put(Put(Put(Put(Put(em, "patientConfirmedArrival", FALSE),
                      "autoAdvanced", TRUE),
                  "autoAdvancedReason", "Patient confirmation timeout after 30 minutes"),
              "awaitingPatientConfirmation", FALSE),
          "status", "patient_loaded"),
      "patientLoadedAt", now)

TimeoutHospitalMutate(em, now) ==
  Put(Put(Put(Put(Put(Put(em, "patientConfirmedCompletion", FALSE),
                      "autoAdvanced", TRUE),
                  "autoAdvancedReason", "Completion confirmation timeout after 30 minutes"),
              "awaitingPatientConfirmation", FALSE),
          "status", "completed"),
      "completedAt", now)

TimeoutReached_Strict(arrivedTime, now) == now - arrivedTime > TIMEOUT_MINUTES

TimeoutReached_Hours(arrivedTime, now) == now - arrivedTime >= TIMEOUT_MINUTES * 60

\* minutesPassed >= TIMEOUT_MINUTES
TimeoutReached(arrivedTime, now) == now - arrivedTime >= TIMEOUT_MINUTES

StartTimeoutAdvance_AnyRole(db, l, now) ==
  IF l.user = Anonymous THEN Reply(db, l, "Unauthorized")
  ELSE IF ~Has(db, l.id) THEN Reply(db, l, "NotFound")
  ELSE LET emergency == db[l.id] IN
    IF emergency.status = "arrived_at_scene" /\ Has(emergency, "arrivedAtSceneAt")
    THEN IF TimeoutReached(emergency.arrivedAtSceneAt, now)
         THEN Goto(db, [l EXCEPT !.em = TimeoutSceneMutate(emergency, now)],
                   <<"setEmergency">>)
         ELSE Reply(db, l, "TimeoutNotReached")
    ELSE IF emergency.status = "arrived_at_hospital" /\ Has(emergency, "arrivedAtHospitalAt")
    THEN IF TimeoutReached(emergency.arrivedAtHospitalAt, now)
         THEN LET e2 == TimeoutHospitalMutate(emergency, now)
              IN  Goto(db, [l EXCEPT !.em = e2],
                       ReleasePlan(e2) \o <<"setEmergency">>)
         ELSE Reply(db, l, "TimeoutNotReached")
    ELSE Reply(db, l, "TimeoutNotReached")

StartTimeoutAdvance(db, l, now) ==
  IF l.user = Anonymous THEN Reply(db, l, "Unauthorized")
  ELSE IF ~Has(db, l.id) THEN Reply(db, l, "NotFound")
  ELSE IF RoleOf(l.user) \notin {"ambulance", "hospital"} THEN Reply(db, l, "Forbidden")
  ELSE LET emergency == db[l.id] IN
    IF emergency.status = "arrived_at_scene" /\ Has(emergency, "arrivedAtSceneAt")
    THEN IF TimeoutReached(emergency.arrivedAtSceneAt, now)
         THEN Goto(db, [l EXCEPT !.em = TimeoutSceneMutate(emergency, now)],
                   <<"setEmergency">>)
         ELSE Reply(db, l, "TimeoutNotReached")
    ELSE IF emergency.status = "arrived_at_hospital" /\ Has(emergency, "arrivedAtHospitalAt")
    THEN IF TimeoutReached(emergency.arrivedAtHospitalAt, now)
         THEN LET e2 == TimeoutHospitalMutate(emergency, now)
              IN  Goto(db, [l EXCEPT !.em = e2],
                       ReleasePlan(e2) \o <<"setEmergency">>)
         ELSE Reply(db, l, "TimeoutNotReached")
    ELSE Reply(db, l, "TimeoutNotReached")

\* --------------------------------------------------- POST /emergency/:id/hospital-confirm
HospitalArrivalMutate(em, now) ==
  Put(Put(Put(Put(em, "hospitalConfirmedArrival", TRUE),
              "awaitingPatientConfirmation", FALSE),
          "status", "patient_loaded"),
      "patientLoadedAt", now)

HospitalCompletionMutate(em, now) ==
  Put(Put(Put(Put(em, "hospitalConfirmedCompletion", TRUE),
              "awaitingPatientConfirmation", FALSE),
          "status", "completed"),
      "completedAt", now)

StartHospitalConfirm(db, l, now) ==
  IF l.user = Anonymous THEN Reply(db, l, "Unauthorized")
  ELSE IF ~Has(db, l.id) THEN Reply(db, l, "NotFound")
  ELSE IF RoleOf(l.user) # "hospital" THEN Reply(db, l, "Forbidden")
  ELSE IF l.arg = "arrival"
    THEN IF db[l.id].status # "arrived_at_scene" THEN Reply(db, l, "WrongState")
         ELSE Goto(db, [l EXCEPT !.em = HospitalArrivalMutate(db[l.id], now)],
                   <<"setEmergency">>)
  ELSE IF l.arg = "completion"
    THEN IF db[l.id].status # "arrived_at_hospital" THEN Reply(db, l, "WrongState")
         ELSE LET emergency == HospitalCompletionMutate(db[l.id], now)
              IN  Goto(db, [l EXCEPT !.em = emergency],
                       ReleasePlan(emergency) \o <<"setEmergency">>)
  ELSE Reply(db, l, "InvalidConfirmationType")

\* --------------------------------------------------- POST /location/update
\* the handler's copy of the caller's whole profile, with the new position
StartLocationUpdate(db, l, now) ==
  IF l.user = Anonymous THEN Reply(db, l, "Unauthorized")
  ELSE IF ~Has(db, UserKey(l.user)) THEN Reply(db, l, "NotFound")
  ELSE LET profile == Put(Put(Put(db[UserKey(l.user)], "latitude", l.arg),
                              "longitude", l.arg2),
                          "lastLocationUpdate", now)
       IN  Goto(db, [l EXCEPT !.prof = profile], <<"setProfile">>)

\* await kv.set(`user:${user.id}`, profile)
StepSetProfile(db, l, now) == Goto(Put(db, UserKey(l.user), l.prof), l, Tail(l.todo))

\* --------------------------------------------------- the awaited store steps
\* await kv.set(emergencyId, emergency)
StepSetEmergency(db, l, now) == Goto(Put(db, l.id, l.em), l, Tail(l.todo))

StepGetActive_KeepsId(db, l, now) ==
  LET activeEmergencies == IF Has(db, ACTIVE) THEN db[ACTIVE] ELSE <<>>
      updated == IF l.op = "create"
                 THEN Append(activeEmergencies, l.id)
                 ELSE activeEmergencies
  IN  Goto(db, [l EXCEPT !.act = updated], Tail(l.todo))

\* await kv.get('emergencies:active') || [], then push / filter on the copy
StepGetActive(db, l, now) ==
  LET activeEmergencies == IF Has(db, ACTIVE) THEN db[ACTIVE] ELSE <<>>
      updated == IF l.op = "create"
                 THEN Append(activeEmergencies, l.id)
                 ELSE SelectSeq(activeEmergencies, LAMBDA x : x # l.id)
  IN  Goto(db, [l EXCEPT !.act = updated], Tail(l.todo))

\* await kv.set('emergencies:active', ...)
StepSetActive(db, l, now) == Goto(Put(db, ACTIVE, l.act), l, Tail(l.todo))

AmbulanceUserId(l) ==
  IF l.op = "assign" THEN Or(l.arg, l.user) ELSE l.em.ambulanceId

StepGetAmbulance_Fails(db, l, now) ==
  LET key == UserKey(AmbulanceUserId(l))
  IN  IF ~Has(db, key) THEN Reply(db, l, "NotFound")
      ELSE LET ambulanceProfile ==
                 IF l.op = "assign"
                 THEN Put(Put(db[key], "status", "busy"), "currentEmergency", l.id)
                 ELSE Put(Put(db[key], "status", "available"), "currentEmergency", "null")
           IN  Goto(db, [l EXCEPT !.prof = ambulanceProfile], Tail(l.todo))

\* await kv.get(`user:${...}`); if (ambulanceProfile) { status, currentEmergency }
StepGetAmbulance(db, l, now) ==
  LET key == UserKey(AmbulanceUserId(l))
  IN  IF ~Has(db, key) THEN Goto(db, l, Tail(Tail(l.todo)))
      ELSE LET ambulanceProfile ==
                 IF l.op = "assign"
                 THEN Put(Put(db[key], "status", "busy"), "currentEmergency", l.id)
                 ELSE Put(Put(db[key], "status", "available"), "currentEmergency", "null")
           IN  Goto(db, [l EXCEPT !.prof = ambulanceProfile], Tail(l.todo))

\* await kv.set(`user:${...}`, ambulanceProfile)
StepSetAmbulance(db, l, now) ==
  Goto(Put(db, UserKey(AmbulanceUserId(l)), l.prof), l, Tail(l.todo))

Route(db, l, now) ==
  CASE l.op = "create" -> StartCreate(db, l, now)
    [] l.op = "assign" -> StartAssign(db, l, now)
    [] l.op = "status" -> StartStatus(db, l, now)
    [] l.op = "confirm-arrival" -> StartConfirmArrival(db, l, now)
    [] l.op = "confirm-completion" -> StartConfirmCompletion(db, l, now)
    [] l.op = "timeout-advance" -> StartTimeoutAdvance(db, l, now)
    [] l.op = "hospital-confirm" -> StartHospitalConfirm(db, l, now)
    [] l.op = "location" -> StartLocationUpdate(db, l, now)

\* the handler from the request to its first awaited store operation
Start(db, l, now) ==
  LET s == Route(db, l, now)
  IN  [s EXCEPT !.l.seen = IF l.op # "create" /\ Has(db, l.id)
                           THEN db[l.id].status ELSE ""]

\* the handler up to and including its next awaited store operation
Step(db, l, now) ==
  LET pc == Head(l.todo) IN
  CASE pc = "start" -> Start(db, l, now)
    [] pc = "getHospital" -> StepGetHospital(db, l, now)
    [] pc = "setEmergency" -> StepSetEmergency(db, l, now)
    [] pc = "getActive" -> StepGetActive(db, l, now)
    [] pc = "setActive" -> StepSetActive(db, l, now)
    [] pc = "getAmbulance" -> StepGetAmbulance(db, l, now)
    [] pc = "setAmbulance" -> StepSetAmbulance(db, l, now)
    [] pc = "setProfile" -> StepSetProfile(db, l, now)

RECURSIVE Run(_, _, _)
Run(db, l, now) ==
  IF l.todo = <<>> THEN [kv |-> db, l |-> l]
  ELSE LET s == Step(db, l, now) IN Run(s.kv, s.l, now)

\* a handler run from request to response with no other request in between
Exec(db, req, now) == Run(db, Begin(req), now)

Request(op, id, user, arg, arg2) ==
  [op |-> op, id |-> id, user |-> user, arg |-> arg, arg2 |-> arg2]

\* ------------------------------------------------------- the client's state
\* useRealtime as first rendered: useState(true), useRef(null), useRef(true);
\* timers are the intervals the browser holds, refreshes the calls of
\* refreshCallback the hook has started so far
HookInit ==
  [phase |-> "rendered", mountedRef |-> TRUE, intervalRef |-> 0, timers |-> {},
   refreshes |-> <<>>, isConnected |-> TRUE, effects |-> 0]

\* AuthProvider as first rendered; refreshes counts the session refreshes of
\* the profile fetch in progress
AuthInit ==
  [pc |-> "idle", user |-> "null", profile |-> "null", accessToken |-> "null",
   refreshes |-> 0]

\* ------------------------------------------------------------ state machine
\* every user has signed up
InitKv ==
  [k \in {UserKey(u) : u \in Users} |->
     SignupProfile(CHOOSE u \in Users : UserKey(u) = k)]

Init ==
  /\ kv = InitKv
  /\ clock = 0
  /\ slots = [i \in 1..NumSlots |-> Idle]
  /\ offPath = 0
  /\ hook = HookInit
  /\ auth = AuthInit

\* the transition graph of the lifecycle: the one successor of each status
Successor(status) ==
  CASE status = "pending" -> "assigned"
    [] status = "assigned" -> "enroute"
    [] status = "enroute" -> "arrived_at_scene"
    [] status = "arrived_at_scene" -> "patient_loaded"
    [] status = "patient_loaded" -> "enroute_to_hospital"
    [] status = "enroute_to_hospital" -> "arrived_at_hospital"
    [] status = "arrived_at_hospital" -> "completed"
    [] OTHER -> "none"

LegalEdge(from, to) ==
  /\ ~IsTerminal(from)
  /\ to = Successor(from) \/ to = "cancelled"

getNextStatus_SkipsGate(status) ==
  CASE status = "assigned" -> "enroute"
    [] status = "enroute" -> "arrived_at_scene"
    [] status = "arrived_at_scene" -> "patient_loaded"
    [] status = "patient_loaded" -> "enroute_to_hospital"
    [] status = "enroute_to_hospital" -> "arrived_at_hospital"
    [] OTHER -> "null"

\* the switch as CLEANUP_SUMMARY.md prints it
getNextStatus_FourStage(status) ==
  CASE status = "assigned" -> "enroute"
    [] status = "enroute" -> "enroute_to_hospital"
    [] status = "enroute_to_hospital" -> "completed"
    [] OTHER -> "null"

\* EmergencyWorkflow: the one next action the unit's screen offers
getNextStatus(status) ==
  CASE status = "assigned" -> "enroute"
    [] status = "enroute" -> "arrived_at_scene"
    [] status = "patient_loaded" -> "enroute_to_hospital"
    [] status = "enroute_to_hospital" -> "arrived_at_hospital"
    [] OTHER -> "null"

\* the unit presses the button of its workflow screen, if there is one:
\* onStatusUpdate(nextStatus.status) -> handleStatusUpdate -> PATCH /status
PressNext(db, id, unit, now) ==
  LET nextStatus == getNextStatus(db[id].status)
  IN  IF nextStatus = "null" THEN db
      ELSE Exec(db, Request("status", id, unit, nextStatus, Omitted), now).kv

\* a successful request that leaves the graph: an assign of a record that is
\* not pending, a status update that is neither the unit's next action nor a
\* cancel of a non-terminal record
OffPath(db, req, r) ==
  /\ r.l.result = "ok"
  /\ \/ req.op = "assign" /\ db[req.id].status # "pending"
     \/ /\ req.op = "status"
        /\ req.arg # getNextStatus(db[req.id].status)
        /\ ~(req.arg = "cancelled" /\ ~IsTerminal(db[req.id].status))

\* any client may send any request; the successful ones that leave the graph
\* are counted and capped by MaxOffPath
Handle(req) ==
  LET r == Exec(kv, req, Now)
  IN  /\ OffPath(kv, req, r) => offPath < MaxOffPath
      /\ offPath' = IF OffPath(kv, req, r) THEN offPath + 1 ELSE offPath
      /\ kv' = r.kv
      /\ UNCHANGED <<clock, slots, hook, auth>>

\* `emergency:${Date.now()}:${user.id}` is a key not yet in the store
CreateEmergency ==
  \E user \in Patients \cup {Anonymous}, id \in EmergencyIds :
    /\ ~Has(kv, id)
    /\ Handle(Request("create", id, user, Omitted, Omitted))

\* the hospitals that dispatch; the other hospitals only call the gate routes
Dispatchers == {"h1"}

\* an ambulanceId under which the store holds no profile
Unregistered == {"a0"}

\* the requests the clients send: an ambulance accepts with its own id
\* (handleAccept), a hospital dispatches an ambulance, either may leave a
\* parameter out
AssignInputs ==
  {<<a, a, Omitted>> : a \in Ambulances}
    \cup {<<Anonymous, a, Omitted>> : a \in Ambulances}
    \cup (Dispatchers \X (Ambulances \cup {Omitted}) \X (Dispatchers \cup {Omitted}))
    \cup (Dispatchers \X Unregistered \X Dispatchers)

AssignEmergency ==
  \E in \in AssignInputs, id \in EmergencyIds :
    Handle(Request("assign", id, in[1], in[2], in[3]))

UpdateStatus ==
  \E user \in Callers, id \in EmergencyIds, status \in Statuses :
    Handle(Request("status", id, user, status, Omitted))

ConfirmArrival ==
  \E user \in Callers, id \in EmergencyIds :
    Handle(Request("confirm-arrival", id, user, Omitted, Omitted))

ConfirmCompletion ==
  \E user \in Callers, id \in EmergencyIds :
    Handle(Request("confirm-completion", id, user, Omitted, Omitted))

TimeoutAdvance ==
  \E user \in Callers, id \in EmergencyIds :
    Handle(Request("timeout-advance", id, user, Omitted, Omitted))

HospitalConfirm ==
  \E user \in Callers, id \in EmergencyIds,
     confirmationType \in {"arrival", "completion", "other"} :
    Handle(Request("hospital-confirm", id, user, confirmationType, Omitted))

\* Date.now() moves on between requests
Tick ==
  /\ clock < MaxClock
  /\ clock' = clock + 1
  /\ UNCHANGED <<kv, slots, offPath, hook, auth>>

Next ==
  \/ CreateEmergency
  \/ AssignEmergency
  \/ UpdateStatus
  \/ ConfirmArrival
  \/ ConfirmCompletion
  \/ TimeoutAdvance
  \/ HospitalConfirm
  \/ Tick

Spec == Init /\ [][Next]_vars

\* the same clients when none of them leaves the transition graph
NextOnPath == Next /\ offPath' = offPath

SpecOnPath == Init /\ [][NextOnPath]_vars

\* a record enters a gate status in this step
EntersGate ==
  \E id \in EmergencyIds :
    /\ Has(kv', id)
    /\ kv'[id].status \in {"arrived_at_scene", "arrived_at_hospital"}
    /\ ~Has(kv, id) \/ kv[id].status # kv'[id].status

\* the graph-following clients, with every gate entered while the clock can
\* still run for the length of a timeout
NextLive == NextOnPath /\ (EntersGate => clock < MaxClock)

\* some record has waited at its gate for the whole timeout: the states in
\* which a timeout-advance changes the store
TimeoutDue ==
  \E id \in EmergencyIds :
    /\ Has(kv, id)
    /\ \/ /\ kv[id].status = "arrived_at_scene" /\ Has(kv[id], "arrivedAtSceneAt")
          /\ TimeoutReached(kv[id].arrivedAtSceneAt, Now)
       \/ /\ kv[id].status = "arrived_at_hospital" /\ Has(kv[id], "arrivedAtHospitalAt")
          /\ TimeoutReached(kv[id].arrivedAtHospitalAt, Now)

\* time goes on, and the unit's and the hospital's screens keep sending
\* timeout-advance while they show a record waiting at a gate: weak fairness
\* of Tick and of TimeoutAdvance, the latter written out with TimeoutDue for
\* ENABLED <<TimeoutAdvance>>_vars
SpecLive ==
  /\ Init /\ [][NextLive]_vars
  /\ WF_vars(Tick)
  /\ []<>(~TimeoutDue) \/ []<><<TimeoutAdvance>>_vars

\* ------------------------------------------------- interleaved handlers
RECURSIVE ExecAll(_, _, _)
ExecAll(db, reqs, now) ==
  IF reqs = <<>> THEN db
  ELSE ExecAll(Exec(db, Head(reqs), now).kv, Tail(reqs), now)

\* one record taken along the lifecycle by its patient, hospital and unit
Lifecycle ==
  <<Request("create", "emergency:1", "p1", Omitted, Omitted),
    Request("assign", "emergency:1", "h1", "a1", "h1"),
    Request("status", "emergency:1", "a1", "enroute", Omitted),
    Request("status", "emergency:1", "a1", "arrived_at_scene", Omitted),
    Request("confirm-arrival", "emergency:1", "p1", Omitted, Omitted),
    Request("status", "emergency:1", "a1", "enroute_to_hospital", Omitted),
    Request("status", "emergency:1", "a1", "arrived_at_hospital", Omitted)>>

\* the record is pending, at the scene gate, at the hospital gate
ScenarioPoints == {1, 4, 7}

Scenario(n) == ExecAll(InitKv, SubSeq(Lifecycle, 1, n), 0)

InitC ==
  /\ kv \in {Scenario(n) : n \in ScenarioPoints}
  /\ clock = 0
  /\ slots = [i \in 1..NumSlots |-> Idle]
  /\ offPath = 0
  /\ hook = HookInit
  /\ auth = AuthInit

\* the positions the unit's dashboard reports (watchPosition)
Positions == {<<"40.7580", "-73.9855">>}

\* the requests that race in SpecC
ConcurrentRequests ==
  {Request("assign", id, in[1], in[2], in[3]) :
     id \in EmergencyIds, in \in {x \in AssignInputs : x[1] # Anonymous}}
  \cup {Request("confirm-arrival", id, u, Omitted, Omitted) :
     id \in EmergencyIds, u \in Patients}
  \cup {Request("confirm-completion", id, u, Omitted, Omitted) :
     id \in EmergencyIds, u \in Patients \cup Hospitals}
  \cup {Request("timeout-advance", id, u, Omitted, Omitted) :
     id \in EmergencyIds, u \in Ambulances \cup Hospitals}
  \cup {Request("hospital-confirm", id, u, t, Omitted) :
     id \in EmergencyIds, u \in Hospitals, t \in {"arrival", "completion"}}
  \cup {Request("status", id, u, "cancelled", Omitted) :
     id \in EmergencyIds, u \in Patients}
  \cup {Request("location", Omitted, u, pos[1], pos[2]) :
     u \in Ambulances, pos \in Positions}

\* a request arrives; its handler has not yet touched the store
BeginRequest(i) ==
  /\ slots[i] = Idle
  /\ \A j \in 1..(i - 1) : slots[j] # Idle
  /\ \E req \in ConcurrentRequests : slots' = [slots EXCEPT ![i] = Begin(req)]
  /\ UNCHANGED <<kv, clock, offPath, hook, auth>>

\* one handler runs to its next await
StepRequest(i) ==
  /\ slots[i].todo # <<>>
  /\ LET s == Step(kv, slots[i], Now)
     IN  /\ kv' = s.kv
         /\ slots' = [slots EXCEPT ![i] = s.l]
  /\ UNCHANGED <<clock, offPath, hook, auth>>

NextC ==
  \/ \E i \in 1..NumSlots : BeginRequest(i)
  \/ \E i \in 1..NumSlots : StepRequest(i)
  \/ Tick

SpecC == InitC /\ [][NextC]_vars

\* ------------------------------------------------- the active list under load
\* keys of records created while another request is being served
NewIds == {"emergency:2", "emergency:3"}

\* creations of new records, and the requester's transitions of the existing
\* record into cancelled and completed
IndexRequests ==
  {Request("create", id, u, Omitted, Omitted) : id \in NewIds, u \in Patients}
  \cup {Request("status", id, u, "cancelled", Omitted) :
          id \in EmergencyIds, u \in Patients}
  \cup {Request("confirm-completion", id, u, Omitted, Omitted) :
          id \in EmergencyIds, u \in Patients}

\* a request on a record that no request in progress is about
BeginIndexRequest(i) ==
  /\ slots[i] = Idle
  /\ \A j \in 1..(i - 1) : slots[j] # Idle
  /\ \E req \in IndexRequests :
       /\ \A j \in 1..NumSlots : slots[j].id # req.id
       /\ slots' = [slots EXCEPT ![i] = Begin(req)]
  /\ UNCHANGED <<kv, clock, offPath, hook, auth>>

NextI ==
  \/ \E i \in 1..NumSlots : BeginIndexRequest(i)
  \/ \E i \in 1..NumSlots : StepRequest(i)

SpecI == InitC /\ [][NextI]_vars

\* ------------------------------------------------- two open records
\* one record assigned to a1 by h1, a second record just created
InitTwo ==
  /\ kv = Exec(Scenario(2), Request("create", "emergency:2", "p1", Omitted, Omitted),
               0).kv
  /\ clock = 0
  /\ slots = [i \in 1..NumSlots |-> Idle]
  /\ offPath = 0
  /\ hook = HookInit
  /\ auth = AuthInit

\* the graph-following requests on either record: dispatch or acceptance,
\* the unit's status updates, the requester's confirmations and cancel
TwoRequests ==
  LET ids == EmergencyIds \cup {"emergency:2"}
  IN  {Request("assign", id, in[1], in[2], in[3]) :
         id \in ids, in \in {x \in AssignInputs : x[1] # Anonymous}}
      \cup {Request("status", id, u, st, Omitted) :
              id \in ids, u \in Ambulances,
              st \in {"enroute", "arrived_at_scene", "enroute_to_hospital",
                      "arrived_at_hospital"}}
      \cup {Request("status", id, u, "cancelled", Omitted) : id \in ids, u \in Patients}
      \cup {Request(op, id, u, Omitted, Omitted) :
              op \in {"confirm-arrival", "confirm-completion"},
              id \in ids, u \in Patients}

NextTwo ==
  \E req \in TwoRequests :
    LET r == Exec(kv, req, Now)
    IN  /\ ~OffPath(kv, req, r)
        /\ kv' = r.kv
        /\ UNCHANGED <<clock, slots, offPath, hook, auth>>

SpecTwo == InitTwo /\ [][NextTwo]_vars

\* ------------------------------------------------- store failures
\* the awaited kv.get / kv.set ahead of the handler throws: the catch block
\* answers 500 and nothing is undone
StoreFails(i) ==
  /\ slots[i].todo # <<>>
  /\ slots' = [slots EXCEPT ![i] = Reply(kv, slots[i], "Failed").l]
  /\ UNCHANGED <<kv, clock, offPath, hook, auth>>

\* one request at a time, each store call of which may fail
NextF ==
  \/ BeginRequest(1)
  \/ StepRequest(1)
  \/ StoreFails(1)
  \/ Tick

SpecF == InitC /\ [][NextF]_vars

\* ------------------------------------------------- useRealtime (polling)
\* the calls of refreshCallback and the runs of the effect a behaviour holds
MaxRefreshCalls == 3
MaxEffects == 2

\* the body of the effect: the initial load, not awaited, and a new interval
EffectBody(h) ==
  [h EXCEPT !.phase = "mounted",
            !.mountedRef = TRUE,
            !.refreshes = Append(@, [by |-> "load", state |-> "pending"]),
            !.timers = @ \cup {h.effects + 1},
            !.intervalRef = h.effects + 1,
            !.effects = @ + 1]

\* a cleanup that leaves the interval running
Cleanup_KeepsInterval(h) == [h EXCEPT !.mountedRef = FALSE]

\* the function the effect returns
Cleanup(h) ==
  [h EXCEPT !.mountedRef = FALSE,
            !.timers = IF h.intervalRef # 0 THEN @ \ {h.intervalRef} ELSE @]

\* the component mounts: the effect runs for the first time
RunEffect ==
  /\ hook.phase = "rendered"
  /\ hook' = EffectBody(hook)
  /\ UNCHANGED <<kv, clock, slots, offPath, auth>>

\* a dependency (the dashboard passes accessToken) changed: cleanup, then the
\* effect again
Resubscribe ==
  /\ hook.phase = "mounted"
  /\ hook.effects < MaxEffects
  /\ Len(hook.refreshes) < MaxRefreshCalls
  /\ hook' = EffectBody(Cleanup(hook))
  /\ UNCHANGED <<kv, clock, slots, offPath, auth>>

Unmount ==
  /\ hook.phase = "mounted"
  /\ hook' = [Cleanup(hook) EXCEPT !.phase = "unmounted"]
  /\ UNCHANGED <<kv, clock, slots, offPath, auth>>

\* an interval the browser still holds fires its callback
IntervalFires(t) ==
  /\ t \in hook.timers
  /\ Len(hook.refreshes) < MaxRefreshCalls
  /\ hook' = IF hook.mountedRef
             THEN [hook EXCEPT !.refreshes = Append(@, [by |-> "tick", state |-> "pending"])]
             ELSE hook
  /\ UNCHANGED <<kv, clock, slots, offPath, auth>>

\* the promise of refresh n settles; the callback of a tick goes on after
\* its await and sets isConnected, which React drops once the component is
\* unmounted; the initial load has no continuation
RefreshSettles(n, outcome) ==
  /\ n \in 1..Len(hook.refreshes)
  /\ hook.refreshes[n].state = "pending"
  /\ hook' = [hook EXCEPT
                !.refreshes[n].state = outcome,
                !.isConnected =
                   IF hook.refreshes[n].by = "tick" /\ hook.phase = "mounted"
                   THEN outcome = "resolved" ELSE @]
  /\ UNCHANGED <<kv, clock, slots, offPath, auth>>

NextHook ==
  \/ RunEffect
  \/ Resubscribe
  \/ Unmount
  \/ \E t \in 1..MaxEffects : IntervalFires(t)
  \/ \E n \in 1..MaxRefreshCalls, outcome \in {"resolved", "rejected"} :
       RefreshSettles(n, outcome)

SpecHook == Init /\ [][NextHook]_vars

\* ------------------------------------------------- AuthProvider (session)
\* refreshes stands at MaxSessionRefreshes for that many or more
MaxSessionRefreshes == 2

Token(u) == "token:" \o u
Refreshed(u) == "refreshed:" \o u

\* setUser, setAccessToken, then fetchProfile is awaited
StartFetch(a, u, token) ==
  [a EXCEPT !.user = u, !.accessToken = token, !.pc = "fetchProfile"]

\* getSession finds a stored session
CheckSession ==
  /\ auth.pc = "idle"
  /\ auth.user = "null"
  /\ \E u \in Users : auth' = [StartFetch(auth, u, Token(u)) EXCEPT !.refreshes = 0]
  /\ UNCHANGED <<kv, clock, slots, offPath, hook>>

\* signInWithPassword answers a session
SignIn ==
  /\ auth.pc = "idle"
  /\ \E u \in Users : auth' = [StartFetch(auth, u, Token(u)) EXCEPT !.refreshes = 0]
  /\ UNCHANGED <<kv, clock, slots, offPath, hook>>

RefreshProfile ==
  /\ auth.pc = "idle"
  /\ auth.accessToken # "null"
  /\ auth' = [auth EXCEPT !.pc = "fetchProfile", !.refreshes = 0]
  /\ UNCHANGED <<kv, clock, slots, offPath, hook>>

\* the profile endpoint answers: 200, 401, or anything else (or fetch throws)
FetchAnswers(response) ==
  /\ auth.pc = "fetchProfile"
  /\ auth' = CASE response = "ok" -> [auth EXCEPT !.profile = auth.user, !.pc = "idle"]
               [] response = "401" -> [auth EXCEPT !.pc = "refreshSession"]
               [] OTHER -> [auth EXCEPT !.pc = "idle"]
  /\ UNCHANGED <<kv, clock, slots, offPath, hook>>

\* supabase.auth.refreshSession answers a session: fetchProfile is called
\* again with the new token
RefreshSucceeds(a) ==
  [a EXCEPT !.accessToken = Refreshed(a.user),
            !.pc = "fetchProfile",
            !.refreshes = IF @ < MaxSessionRefreshes THEN @ + 1 ELSE @]

\* refreshSession: a session, or none (or it throws) and signOut is awaited
RefreshAnswers(session) ==
  /\ auth.pc = "refreshSession"
  /\ auth' = IF session THEN RefreshSucceeds(auth) ELSE [auth EXCEPT !.pc = "signOut"]
  /\ UNCHANGED <<kv, clock, slots, offPath, hook>>

\* the user signs out
SignOut ==
  /\ auth.pc = "idle"
  /\ auth.user # "null"
  /\ auth' = [auth EXCEPT !.pc = "signOut"]
  /\ UNCHANGED <<kv, clock, slots, offPath, hook>>

\* supabase.auth.signOut has answered
SignOutAnswers ==
  /\ auth.pc = "signOut"
  /\ auth' = [auth EXCEPT !.user = "null", !.profile = "null",
                          !.accessToken = "null", !.pc = "idle"]
  /\ UNCHANGED <<kv, clock, slots, offPath, hook>>

AuthAnswers ==
  \/ \E response \in {"ok", "401", "error"} : FetchAnswers(response)
  \/ \E session \in BOOLEAN : RefreshAnswers(session)
  \/ SignOutAnswers

NextAuth ==
  \/ CheckSession
  \/ SignIn
  \/ RefreshProfile
  \/ SignOut
  \/ AuthAnswers

\* every awaited call is answered
SpecAuth == Init /\ [][NextAuth]_vars /\ WF_vars(AuthAnswers)

\* ------------------------------------------------------------------ claims
Emergencies == {id \in EmergencyIds : Has(kv, id)}

Profile(u) == kv[UserKey(u)]

\* position of a status along the transition graph
Rank(status) ==
  CASE status = "pending" -> 0
    [] status = "assigned" -> 1
    [] status = "enroute" -> 2
    [] status = "arrived_at_scene" -> 3
    [] status = "patient_loaded" -> 4
    [] status = "enroute_to_hospital" -> 5
    [] status = "arrived_at_hospital" -> 6
    [] OTHER -> 7

IsTrue(o, f) == Has(o, f) /\ o[f] = TRUE

ArrivalConfirmed(em) ==
  IsTrue(em, "patientConfirmedArrival") \/ IsTrue(em, "hospitalConfirmedArrival")

CompletionConfirmed(em) ==
  IsTrue(em, "patientConfirmedCompletion") \/ IsTrue(em, "hospitalConfirmedCompletion")

\* C1: advanceStatus with a target that is not the legal successor of the
\* current status (nor cancelled from a non-terminal status) is rejected with
\* InvalidTransition and leaves the stored status unchanged.
C1_AdvanceRejectsIllegalTarget ==
  \A id \in Emergencies, user \in Users, target \in Statuses :
    LET r == Exec(kv, Request("status", id, user, target, Omitted), Now)
    IN  ~LegalEdge(kv[id].status, target) =>
          /\ r.l.result = "InvalidTransition"
          /\ r.kv[id].status = kv[id].status

\* C2: a status change never moves a record backwards, reaches
\* patient_loaded only as a gate resolution applied at arrived_at_scene, and
\* reaches completed only as a gate resolution applied at arrived_at_hospital.
C2_NoGateSkipNoBackward ==
  [][\A id \in Emergencies :
       (Has(kv', id) /\ kv'[id].status # kv[id].status) =>
         /\ Rank(kv'[id].status) >= Rank(kv[id].status)
         /\ kv'[id].status = "patient_loaded" =>
              /\ kv[id].status = "arrived_at_scene"
              /\ kv'[id] \in {ConfirmArrivalMutate(kv[id], Now),
                              HospitalArrivalMutate(kv[id], Now),
                              TimeoutSceneMutate(kv[id], Now)}
         /\ kv'[id].status = "completed" =>
              /\ kv[id].status = "arrived_at_hospital"
              /\ kv'[id] \in {ConfirmCompletionMutate(kv[id], Now),
                              HospitalCompletionMutate(kv[id], Now),
                              TimeoutHospitalMutate(kv[id], Now)}]_vars

\* C3: awaitingPatientConfirmation is true exactly when the record is at a
\* gate status whose confirmation flag is not yet true.
C3_AwaitingIffGateUnconfirmed ==
  \A id \in Emergencies :
    IsTrue(kv[id], "awaitingPatientConfirmation") <=>
      \/ kv[id].status = "arrived_at_scene" /\ ~ArrivalConfirmed(kv[id])
      \/ kv[id].status = "arrived_at_hospital" /\ ~CompletionConfirmed(kv[id])

\* the calls that resolve the gate a record stands at, each by an actor the
\* handler admits
GateRequests(id, status) ==
  IF status = "arrived_at_scene"
  THEN {Request("confirm-arrival", id, kv[id].patientId, Omitted, Omitted)}
       \cup {Request("hospital-confirm", id, h, "arrival", Omitted) : h \in Hospitals}
       \cup {Request("timeout-advance", id, u, Omitted, Omitted) :
               u \in Ambulances \cup Hospitals}
  ELSE IF status = "arrived_at_hospital"
  THEN {Request("confirm-completion", id, kv[id].patientId, Omitted, Omitted)}
       \cup {Request("hospital-confirm", id, h, "completion", Omitted) : h \in Hospitals}
       \cup {Request("timeout-advance", id, u, Omitted, Omitted) :
               u \in Ambulances \cup Hospitals}
  ELSE {}

\* C4: after one gate resolution has succeeded, a following call of any of
\* the three for the same gate fails with WrongState and changes nothing.
C4_ResolvedGateRejects ==
  \A id \in Emergencies :
    \A first, second \in GateRequests(id, kv[id].status) :
      LET r1 == Exec(kv, first, Now)
          r2 == Exec(r1.kv, second, Now)
      IN  r1.l.result = "ok" =>
            /\ r2.l.result = "WrongState"
            /\ r2.kv = r1.kv

\* a request that has returned success
Succeeded(l) == l.todo = <<>> /\ l.result = "ok"

GateOps ==
  {"confirm-arrival", "confirm-completion", "timeout-advance", "hospital-confirm"}

\* C5: of the different gate resolutions (direct, proxy, timeout) that run
\* concurrently on one gate of one record, at most one reports success, and
\* once all have returned the stored record is the one the winner wrote.
C5_OneGateWinner ==
  \A i, j \in 1..NumSlots :
    (/\ i # j
     /\ slots[i].op \in GateOps /\ slots[j].op \in GateOps
     /\ slots[i].op # slots[j].op
     /\ slots[i].id = slots[j].id
     /\ slots[i].seen = slots[j].seen
     /\ slots[i].todo = <<>> /\ slots[j].todo = <<>>
     /\ Succeeded(slots[i])) =>
       /\ ~Succeeded(slots[j])
       /\ kv[slots[i].id] = slots[i].em

\* C6: assign on a record that is not pending fails with AlreadyAssigned and
\* leaves the record and the units unchanged.
C6_AssignOnlyPending ==
  \A id \in Emergencies, in \in AssignInputs :
    LET r == Exec(kv, Request("assign", id, in[1], in[2], in[3]), Now)
    IN  (in[1] # Anonymous /\ kv[id].status # "pending") =>
          /\ r.l.result = "AlreadyAssigned"
          /\ r.kv = kv

\* C7: of two assign calls for different units that both read the record as
\* pending, exactly one succeeds; the record names the winner's unit and only
\* that unit is busy.
C7_OneAssignWinner ==
  \A i, j \in 1..NumSlots :
    (/\ i # j
     /\ slots[i].op = "assign" /\ slots[j].op = "assign"
     /\ slots[i].id = slots[j].id
     /\ AmbulanceUserId(slots[i]) # AmbulanceUserId(slots[j])
     /\ slots[i].seen = "pending" /\ slots[j].seen = "pending"
     /\ slots[i].todo = <<>> /\ slots[j].todo = <<>>) =>
       /\ Succeeded(slots[i]) # Succeeded(slots[j])
       /\ \A u \in Ambulances :
            Profile(u).status = "busy" <=> kv[slots[i].id].ambulanceId = u

\* C8: once written, ambulanceId and hospitalId of a non-terminal record are
\* never changed or cleared.
C8_UnitFacilitySetOnce ==
  [][\A id \in Emergencies :
       (Has(kv[id], "ambulanceId") /\ ~IsTerminal(kv[id].status)) =>
         /\ Has(kv', id)
         /\ Has(kv'[id], "ambulanceId") /\ Has(kv'[id], "hospitalId")
         /\ kv'[id].ambulanceId = kv[id].ambulanceId
         /\ kv'[id].hospitalId = kv[id].hospitalId]_vars

\* the unit's currentEmergency names a non-terminal record that names the unit
Serving(u) ==
  /\ Has(Profile(u), "currentEmergency")
  /\ Has(kv, Profile(u).currentEmergency)
  /\ LET em == kv[Profile(u).currentEmergency]
     IN  /\ ~IsTerminal(em.status)
         /\ Has(em, "ambulanceId") /\ em.ambulanceId = u

\* C9: a transport unit is busy exactly when its currentEmergency names a
\* non-terminal record whose ambulanceId is that unit.
C9_BusyIffServing ==
  \A u \in Ambulances : (Profile(u).status = "busy") <=> Serving(u)

\* C10: no unit that an assign bound to a record is still bound to it once
\* the record is completed or cancelled: the unit is available with
\* currentEmergency null.
C10_TerminalFreesUnit ==
  \A id \in Emergencies, u \in Ambulances :
    (/\ IsTerminal(kv[id].status)
     /\ Has(Profile(u), "currentEmergency")
     /\ Profile(u).currentEmergency \in {id, "null"}) =>
       /\ Profile(u).status = "available"
       /\ Profile(u).currentEmergency = "null"

\* the ids of a sequence of records / of ids
Listed(emergencies) == {emergencies[i].id : i \in DOMAIN emergencies}

ActiveIndex == IF Has(kv, ACTIVE) THEN {kv[ACTIVE][i] : i \in DOMAIN kv[ACTIVE]} ELSE {}

\* C11: along a lifecycle that follows the transition graph, a record is in
\* the answer of GET /emergencies/active, and its id in the stored active
\* list, exactly when its status is neither completed nor cancelled.
C11_ActiveListIffNonTerminal ==
  \A id \in Emergencies, user \in Ambulances \cup Hospitals :
    LET out == ListActive(kv, user)
    IN  /\ out.result = "ok"
        /\ id \in Listed(out.emergencies) <=> ~IsTerminal(kv[id].status)
        /\ id \in ActiveIndex <=> ~IsTerminal(kv[id].status)

\* a record has been created, listed, taken to a terminal status and delisted
C11_Witness ==
  \E id \in Emergencies :
    /\ IsTerminal(kv[id].status)
    /\ Has(kv[id], "ambulanceId")
    /\ ActiveIndex = {}
    /\ \A user \in Ambulances \cup Hospitals : ListActive(kv, user).emergencies = <<>>

\* every request a logged-in user can send about a record
RequestsOn(id) ==
  {Request("status", id, u, st, Omitted) : u \in Users, st \in Statuses}
  \cup {Request("assign", id, in[1], in[2], in[3]) :
          in \in {x \in AssignInputs : x[1] # Anonymous}}
  \cup {Request(op, id, u, Omitted, Omitted) :
          op \in {"confirm-arrival", "confirm-completion", "timeout-advance"},
          u \in Users}
  \cup {Request("hospital-confirm", id, u, t, Omitted) :
          u \in Users, t \in {"arrival", "completion"}}

\* C12: a completed or cancelled record never changes again: no later request
\* changes the record, the active list or a unit, and every later
\* advanceStatus fails with InvalidTransition.
C12_TerminalImmutable ==
  \A id \in Emergencies :
    IsTerminal(kv[id].status) =>
      \A req \in RequestsOn(id) :
        LET r == Exec(kv, req, Now)
        IN  /\ r.kv = kv
            /\ req.op = "status" => r.l.result = "InvalidTransition"

\* the direct confirmation route of the gate a status stands for
DirectOp(status) ==
  IF status = "arrived_at_scene" THEN "confirm-arrival" ELSE "confirm-completion"

GateStatuses == {"arrived_at_scene", "arrived_at_hospital"}

\* C13: at either gate, a direct confirmation by a caller who is not the
\* requester of the record, the assigned facility included, is answered
\* Forbidden and changes nothing.
C13_DirectOnlyByRequester ==
  \A id \in Emergencies, user \in Users :
    (kv[id].status \in GateStatuses /\ user # kv[id].patientId) =>
      LET r == Exec(kv, Request(DirectOp(kv[id].status), id, user, Omitted, Omitted), Now)
      IN  /\ r.l.result = "Forbidden"
          /\ r.kv = kv

\* user is a facility and the facility the record names
NamedFacility(em, user) ==
  /\ RoleOf(user) = "hospital"
  /\ Has(em, "hospitalId") /\ em.hospitalId = user

\* C14: a proxy confirmation by a caller that is not a facility, or by a
\* facility that the record does not name, is rejected and changes nothing.
C14_ProxyOnlyByNamedFacility ==
  \A id \in Emergencies, user \in Users, t \in {"arrival", "completion"} :
    ~NamedFacility(kv[id], user) =>
      LET r == Exec(kv, Request("hospital-confirm", id, user, t, Omitted), Now)
      IN  /\ r.l.result # "ok"
          /\ r.kv = kv

PatientFlags == {"patientConfirmedArrival", "patientConfirmedCompletion"}

\* the facility-attributed flag of the gate a status stands for
HospitalFlag(status) ==
  IF status = "arrived_at_scene"
  THEN "hospitalConfirmedArrival" ELSE "hospitalConfirmedCompletion"

\* C15: a request sets a patient-attributed confirmation flag only when its
\* caller is the requester of the record, and a confirmation that a facility
\* enters is stored under the facility-attributed flag of that gate.
C15_AttributionFaithful ==
  \A id \in Emergencies :
    \A req \in RequestsOn(id) :
      LET r == Exec(kv, req, Now)
      IN  /\ \A f \in PatientFlags :
               (IsTrue(r.kv[id], f) /\ ~IsTrue(kv[id], f)) =>
                 req.user = kv[id].patientId
          /\ (/\ RoleOf(req.user) = "hospital"
              /\ req.op \in {"confirm-arrival", "confirm-completion", "hospital-confirm"}
              /\ r.l.result = "ok") =>
                IsTrue(r.kv[id], HospitalFlag(kv[id].status))

\* the gate-entry stamp of the gate a status stands for
GateStamp(status) ==
  IF status = "arrived_at_scene" THEN "arrivedAtSceneAt" ELSE "arrivedAtHospitalAt"

TimeoutCallers == Ambulances \cup Hospitals

\* C16: a timeout-advance on a record at a gate, sent by a unit or a facility
\* any number of minutes after the gate was entered, takes effect when at
\* least 30 minutes have passed and otherwise fails with TimeoutNotReached
\* and leaves the record, the active list and the units unchanged.
C16_TimeoutThreshold ==
  \A id \in Emergencies, user \in TimeoutCallers, minutes \in 0..MaxElapsed :
    kv[id].status \in GateStatuses =>
      LET entered == kv[id][GateStamp(kv[id].status)]
          r == Exec(kv, Request("timeout-advance", id, user, Omitted, Omitted),
                    entered + minutes)
      IN  IF minutes >= 30
          THEN /\ r.l.result = "ok"
               /\ r.kv[id].status = Successor(kv[id].status)
          ELSE /\ r.l.result = "TimeoutNotReached"
               /\ r.kv = kv

\* a record that one timeout-advance has taken past the scene gate stands
\* at the hospital gate
C16_Witness ==
  \E id \in Emergencies :
    /\ kv[id].status = "arrived_at_hospital"
    /\ IsTrue(kv[id], "autoAdvanced")
    /\ Has(kv[id], "patientConfirmedArrival")
    /\ kv[id].patientConfirmedArrival = FALSE

\* the requester-attributed flag of the gate a status stands for
PatientFlag(status) ==
  IF status = "arrived_at_scene"
  THEN "patientConfirmedArrival" ELSE "patientConfirmedCompletion"

\* the times at which a claim tries a request on a record: any waiting time
\* up to MaxElapsed at a gate, the present otherwise
TryTimes(id) ==
  IF kv[id].status \in GateStatuses
  THEN {kv[id][GateStamp(kv[id].status)] + m : m \in 0..MaxElapsed}
  ELSE {Now}

\* C17: a timeout-advance that succeeds was sent at a gate; it moves the
\* record to the gate's successor, stores the gate's patient flag as false,
\* records no facility confirmation, clears awaitingPatientConfirmation and
\* sets autoAdvanced with a reason.  No other request, and no failed
\* timeout-advance, turns autoAdvanced on.
C17_TimeoutRecordsNoConsent ==
  \A id \in Emergencies :
    /\ \A user \in Users, now \in TryTimes(id) :
         LET old == kv[id]
             r == Exec(kv, Request("timeout-advance", id, user, Omitted, Omitted), now)
             new == r.kv[id]
         IN  IF r.l.result = "ok"
             THEN /\ old.status \in GateStatuses
                  /\ new.status = Successor(old.status)
                  /\ Has(new, PatientFlag(old.status))
                  /\ new[PatientFlag(old.status)] = FALSE
                  /\ IsTrue(new, HospitalFlag(old.status)) =>
                       IsTrue(old, HospitalFlag(old.status))
                  /\ Has(new, "awaitingPatientConfirmation")
                  /\ new.awaitingPatientConfirmation = FALSE
                  /\ IsTrue(new, "autoAdvanced")
                  /\ Has(new, "autoAdvancedReason")
             ELSE IsTrue(new, "autoAdvanced") => IsTrue(old, "autoAdvanced")
    /\ \A req \in RequestsOn(id) :
         LET r == Exec(kv, req, Now)
         IN  (IsTrue(r.kv[id], "autoAdvanced") /\ ~IsTrue(kv[id], "autoAdvanced")) =>
               req.op = "timeout-advance" /\ r.l.result = "ok"

\* a timeout-advance has completed a record at the hospital gate
C17_Witness ==
  \E id \in Emergencies :
    /\ kv[id].status = "completed"
    /\ IsTrue(kv[id], "autoAdvanced")
    /\ Has(kv[id], "patientConfirmedCompletion")
    /\ kv[id].patientConfirmedCompletion = FALSE
    /\ ~IsTrue(kv[id], "hospitalConfirmedCompletion")

\* C18: right after a timeout-advance has succeeded, a second timeout-advance
\* on the same record fails with WrongState and does not advance the record.
C18_SecondTimeoutWrongState ==
  \A id \in Emergencies, first \in TimeoutCallers, second \in TimeoutCallers :
    \A now \in TryTimes(id) :
      LET r1 == Exec(kv, Request("timeout-advance", id, first, Omitted, Omitted), now)
          r2 == Exec(r1.kv, Request("timeout-advance", id, second, Omitted, Omitted), now)
      IN  r1.l.result = "ok" =>
            /\ r2.l.result = "WrongState"
            /\ r2.kv = r1.kv

\* C19: a timeout-advance sent by a user who is neither a unit nor a
\* facility, the requester in particular, is answered Forbidden whatever
\* time has passed and changes nothing; one that succeeds was sent by a unit
\* or a facility.
C19_TimeoutOnlyUnitOrFacility ==
  \A id \in Emergencies, user \in Users :
    \A now \in TryTimes(id) :
      LET r == Exec(kv, Request("timeout-advance", id, user, Omitted, Omitted), now)
      IN  /\ RoleOf(user) \notin {"ambulance", "hospital"} =>
               r.l.result = "Forbidden" /\ r.kv = kv
          /\ r.l.result = "ok" => RoleOf(user) \in {"ambulance", "hospital"}

\* a record has waited at a gate for the whole timeout and its requester
\* is among the callers
C19_Witness ==
  \E id \in Emergencies :
    /\ kv[id].status \in GateStatuses
    /\ TimeoutReached(kv[id][GateStamp(kv[id].status)], Now)
    /\ RoleOf(kv[id].patientId) = "patient"
    /\ Exec(kv, Request("timeout-advance", id, kv[id].patientId, Omitted, Omitted),
             Now).l.result = "Forbidden"

\* the stamp written on entering the successor of a gate
SuccessorStamp(status) ==
  IF status = "arrived_at_scene" THEN "patientLoadedAt" ELSE "completedAt"

\* C20: a status update that enters a gate status sets
\* awaitingPatientConfirmation; at a gate the requester's direct confirmation
\* succeeds, and a direct confirmation that succeeds sets the gate's patient
\* flag and no facility flag, clears awaitingPatientConfirmation, moves the
\* record to the gate's successor and stamps the successor's time.
C20_GateEntryAndDirectConfirm ==
  \A id \in Emergencies :
    /\ \A user \in Users, gate \in GateStatuses :
         LET r == Exec(kv, Request("status", id, user, gate, Omitted), Now)
         IN  /\ r.l.result = "ok"
             /\ r.kv[id].status = gate
             /\ IsTrue(r.kv[id], "awaitingPatientConfirmation")
    /\ kv[id].status \in GateStatuses =>
         \A user \in Users, now \in TryTimes(id) :
           LET old == kv[id]
               r == Exec(kv, Request(DirectOp(old.status), id, user, Omitted, Omitted), now)
               new == r.kv[id]
           IN  /\ user = old.patientId => r.l.result = "ok"
               /\ r.l.result = "ok" =>
                    /\ new.status = Successor(old.status)
                    /\ IsTrue(new, PatientFlag(old.status))
                    /\ IsTrue(new, HospitalFlag(old.status)) =>
                         IsTrue(old, HospitalFlag(old.status))
                    /\ Has(new, "awaitingPatientConfirmation")
                    /\ new.awaitingPatientConfirmation = FALSE
                    /\ Has(new, SuccessorStamp(old.status))
                    /\ new[SuccessorStamp(old.status)] = now

\* the requester has confirmed the arrival of a unit that reported it
C20_Witness ==
  \E id \in Emergencies :
    /\ kv[id].status = "patient_loaded"
    /\ IsTrue(kv[id], "patientConfirmedArrival")
    /\ Has(kv[id], "arrivedAtSceneAt")
    /\ Has(kv[id], "patientLoadedAt")
    /\ Has(kv[id], "awaitingPatientConfirmation")
    /\ kv[id].awaitingPatientConfirmation = FALSE

\* C21: every call by a logged-in user either returns an error and leaves the
\* store as it was, or returns success with the status of the record changed
\* to the requested status or to the successor of the old one.
C21_NoSilentFailure ==
  \A id \in Emergencies :
    \A req \in RequestsOn(id) :
      LET r == Exec(kv, req, Now)
      IN  IF r.l.result = "ok"
          THEN /\ r.kv[id].status # kv[id].status
               /\ r.kv[id].status =
                    IF req.op = "status" THEN req.arg ELSE Successor(kv[id].status)
          ELSE r.kv = kv

\* C22: while one request is served alone, the active list and the units
\* never run ahead of the stored record: an id is taken off the list, and a
\* unit is released, only when the stored record is already completed or
\* cancelled, and a unit is bound to a record only when the stored record has
\* already left pending.
C22_RecordWrittenFirst ==
  slots[2] = Idle =>
    \A id \in Emergencies :
      /\ id \notin ActiveIndex => IsTerminal(kv[id].status)
      /\ \A u \in Ambulances :
           /\ (Has(Profile(u), "currentEmergency") /\ Profile(u).currentEmergency = "null")
                => IsTerminal(kv[id].status)
           /\ (Has(Profile(u), "currentEmergency") /\ Profile(u).currentEmergency = id)
                => kv[id].status # "pending"

\* how many times an id stands in a list
Count(list, id) == Cardinality({i \in DOMAIN list : list[i] = id})

\* C23: the add and the remove of the active list are idempotent: a POST
\* /emergency whose key is already listed leaves the list as it was, so no id is
\* listed twice, and a terminal status update of a record that is no longer
\* listed succeeds and leaves the list as it was.
C23_IndexIdempotent ==
  \A id \in Emergencies :
    LET add == Exec(kv, Request("create", id, kv[id].patientId, Omitted, Omitted), Now)
    IN  /\ Count(kv[ACTIVE], id) <= 1
        /\ id \in ActiveIndex =>
             /\ add.kv[ACTIVE] = kv[ACTIVE]
             /\ Count(add.kv[ACTIVE], id) <= 1
        /\ id \notin ActiveIndex =>
             \A user \in Users, status \in {"completed", "cancelled"} :
               LET del == Exec(kv, Request("status", id, user, status, Omitted), Now)
               IN  /\ del.l.result = "ok"
                   /\ del.kv[ACTIVE] = kv[ACTIVE]

\* the record names a unit under whose id the store holds no profile
UnitUnresolved(em) == Has(em, "ambulanceId") /\ ~Has(kv, UserKey(em.ambulanceId))

\* the requests that take a record to completed or cancelled and that the
\* handlers admit in its present status
TerminalRequests(id) ==
  {Request("status", id, kv[id].patientId, "cancelled", Omitted)}
  \cup (IF kv[id].status = "arrived_at_hospital"
        THEN {Request("confirm-completion", id, kv[id].patientId, Omitted, Omitted)}
             \cup {Request("hospital-confirm", id, h, "completion", Omitted) :
                     h \in Hospitals}
             \cup {Request("timeout-advance", id, u, Omitted, Omitted) :
                     u \in TimeoutCallers}
        ELSE {})

\* C24: an assign that names a unit without a stored profile succeeds and
\* leaves the record assigned to that unit; on a record whose unit has no
\* stored profile every admitted transition into completed or cancelled
\* succeeds, leaves the record terminal and takes it off the active list.
C24_UnresolvedUnitNeverFails ==
  \A id \in Emergencies :
    /\ kv[id].status = "pending" =>
         \A h \in Dispatchers, u \in Unregistered :
           LET r == Exec(kv, Request("assign", id, h, u, h), Now)
           IN  /\ r.l.result = "ok"
               /\ r.kv[id].status = "assigned"
               /\ r.kv[id].ambulanceId = u
    /\ (UnitUnresolved(kv[id]) /\ ~IsTerminal(kv[id].status)) =>
         \A req \in TerminalRequests(id) :
           LET now == IF req.op = "timeout-advance"
                      THEN kv[id].arrivedAtHospitalAt + TIMEOUT_MINUTES
                      ELSE Now
               r == Exec(kv, req, now)
               listed == r.kv[ACTIVE]
           IN  /\ r.l.result = "ok"
               /\ IsTerminal(r.kv[id].status)
               /\ Count(listed, id) = 0

\* a record assigned to a unit without a stored profile has been taken from
\* the hospital gate to completed and off the active list
C24_Witness ==
  \E id \in Emergencies :
    /\ UnitUnresolved(kv[id])
    /\ kv[id].status = "completed"
    /\ Has(kv[id], "arrivedAtHospitalAt")
    /\ id \notin ActiveIndex

\* C25: a successful assign of a pending record, by a hospital or by a unit,
\* with or without the ids in the request, leaves the record assigned with
\* ambulanceId, hospitalId and assignedAt, with a hospital snapshot that has
\* the default coordinates when the hospital has none on file, and leaves the
\* named unit busy on that record.
C25_AssignLeavesFullRecord ==
  \A id \in Emergencies, in \in AssignInputs :
    LET r == Exec(kv, Request("assign", id, in[1], in[2], in[3]), Now)
        new == r.kv[id]
        unit == UserKey(Or(in[2], in[1]))
        facility == Get(kv, UserKey(Or(in[3], in[1])))
    IN  (kv[id].status = "pending" /\ r.l.result = "ok") =>
          /\ new.status = "assigned"
          /\ Has(new, "ambulanceId") /\ new.ambulanceId = Or(in[2], in[1])
          /\ Has(new, "hospitalId") /\ new.hospitalId = Or(in[3], in[1])
          /\ Has(new, "assignedAt") /\ new.assignedAt = Now
          /\ Has(new, "hospital")
          /\ ~Has(facility, "latitude") => new.hospital.latitude = DefaultLatitude
          /\ ~Has(facility, "longitude") => new.hospital.longitude = DefaultLongitude
          /\ Has(kv, unit) =>
               /\ r.kv[unit].status = "busy"
               /\ r.kv[unit].currentEmergency = id

AtGate(id) == Has(kv, id) /\ kv[id].status \in GateStatuses

\* TimeoutDue is the enabling condition of a timeout-advance that changes
\* the store
TimeoutDueIsEnabled ==
  TimeoutDue <=>
    \E user \in Callers, id \in EmergencyIds :
      Exec(kv, Request("timeout-advance", id, user, Omitted, Omitted), Now).kv # kv

\* C26: while time goes on and a unit or a hospital keeps sending
\* timeout-advance, a record that stands at arrived_at_scene or at
\* arrived_at_hospital eventually leaves that status, whatever
\* graph-following requests are served in between.
C26_NoRecordStrandedAtGate ==
  \A id \in EmergencyIds :
    /\ (AtGate(id) /\ kv[id].status = "arrived_at_scene")
         ~> ~(AtGate(id) /\ kv[id].status = "arrived_at_scene")
    /\ (AtGate(id) /\ kv[id].status = "arrived_at_hospital")
         ~> ~(AtGate(id) /\ kv[id].status = "arrived_at_hospital")

\* a record that nobody confirmed at the scene has been moved on by a
\* timeout-advance once the timeout had run out
C26_Witness ==
  \E id \in Emergencies :
    /\ ~AtGate(id)
    /\ IsTrue(kv[id], "autoAdvanced")
    /\ ~ArrivalConfirmed(kv[id])
    /\ Has(kv[id], "arrivedAtSceneAt")
    /\ TimeoutReached(kv[id].arrivedAtSceneAt, Now)

Stages ==
  {"assigned", "enroute", "arrived_at_scene", "patient_loaded",
   "enroute_to_hospital", "arrived_at_hospital", "completed"}

\* the timeline field of a stage (Emergency in utils/api.ts)
StageStamp(stage) ==
  CASE stage = "assigned" -> "assignedAt"
    [] stage = "enroute" -> "enrouteAt"
    [] stage = "arrived_at_scene" -> "arrivedAtSceneAt"
    [] stage = "patient_loaded" -> "patientLoadedAt"
    [] stage = "enroute_to_hospital" -> "enrouteToHospitalAt"
    [] stage = "arrived_at_hospital" -> "arrivedAtHospitalAt"
    [] stage = "completed" -> "completedAt"

\* C27: along a lifecycle that follows the transition graph, a record that
\* is not cancelled carries the timeline field of a stage exactly when it has
\* entered that stage, and a cancelled record carries no completedAt.
C27_StampForEveryStageEntered ==
  \A id \in Emergencies :
    IF kv[id].status = "cancelled"
    THEN ~Has(kv[id], "completedAt")
    ELSE \A stage \in Stages :
           Has(kv[id], StageStamp(stage)) <=> Rank(stage) <= Rank(kv[id].status)

\* C28: every non-terminal record can be cancelled by its requester; a cancel
\* sent by a unit or a facility is rejected and changes nothing.
C28_CancelOnlyByRequester ==
  \A id \in Emergencies, user \in Users :
    ~IsTerminal(kv[id].status) =>
      LET r == Exec(kv, Request("status", id, user, "cancelled", Omitted), Now)
      IN  /\ user = kv[id].patientId =>
               r.l.result = "ok" /\ r.kv[id].status = "cancelled"
          /\ RoleOf(user) \in {"ambulance", "hospital"} =>
               r.l.result # "ok" /\ r.kv = kv

UnitTargets ==
  {"enroute", "arrived_at_scene", "enroute_to_hospital", "arrived_at_hospital"}

\* C29: a status update to the unit's next stage (enroute, arrived_at_scene,
\* enroute_to_hospital, arrived_at_hospital) sent by a caller who is not a
\* unit is rejected and leaves the record unchanged.
C29_ForwardOnlyByUnit ==
  \A id \in Emergencies, user \in Users :
    LET target == getNextStatus(kv[id].status)
        r == Exec(kv, Request("status", id, user, target, Omitted), Now)
    IN  (target \in UnitTargets /\ RoleOf(user) # "ambulance") =>
          /\ r.l.result # "ok"
          /\ r.kv[id] = kv[id]

\* availability and currentEmergency of a stored profile
DispatchFields(profile) ==
  <<profile.status,
    IF Has(profile, "currentEmergency") THEN profile.currentEmergency ELSE "undefined">>

\* C30: no step of a location update changes the availability or the
\* currentEmergency of a unit, whatever assign or release is served between
\* its read and its write of the profile.
C30_LocationKeepsDispatchFields ==
  [][\A i \in 1..NumSlots :
       (slots[i].op = "location" /\ slots'[i] # slots[i]) =>
         \A u \in Ambulances :
           DispatchFields(kv'[UserKey(u)]) = DispatchFields(kv[UserKey(u)])]_vars

\* what POST /emergency captures about the requester and the place
Snapshot(em) ==
  <<em.patientId, em.patientName, em.patientPhone, em.patientEmail,
    em.latitude, em.longitude>>

LocationRequests ==
  {Request("location", Omitted, u, pos[1], pos[2]) : u \in Users, pos \in Positions}

C32_SideTableFailureTolerated ==
  \A i \in 1..NumSlots :
    LET l == slots[i]
    IN  (/\ l.op \in {"assign", "status", "confirm-completion", "timeout-advance",
                      "hospital-confirm"}
         /\ l.todo = <<>>
         /\ Has(l.em, "status")
         /\ l.op = "assign" \/ IsTerminal(l.em.status)
         /\ kv[l.id] = l.em) =>
          l.result = "ok"

\* the record after the unit has pressed its button n times in a row
RECURSIVE PressTimes(_, _, _, _)
PressTimes(db, id, unit, n) ==
  IF n = 0 THEN db ELSE PressTimes(PressNext(db, id, unit, Now), id, unit, n - 1)

AssignedToUnit(id) ==
  /\ kv[id].status = "assigned"
  /\ Has(kv[id], "ambulanceId") /\ kv[id].ambulanceId \in Ambulances

UnitStatuses == {"assigned", "enroute", "patient_loaded", "enroute_to_hospital"}

NonTerminalIds ==
  {id \in EmergencyIds \cup NewIds : Has(kv, id) /\ ~IsTerminal(kv[id].status)}

\* C35: when creations and terminal transitions of different records have
\* run interleaved and all have returned success, the active list holds
\* exactly the ids of the records that are neither completed nor cancelled.
C35_IndexExactAfterRace ==
  (\A i \in 1..NumSlots : slots[i] # Idle /\ Succeeded(slots[i])) =>
    ActiveIndex = NonTerminalIds

\* C36: at most one record that is neither completed nor cancelled names a
\* given unit, and an assign does not bind a unit that is busy with another
\* such record.
C36_OneOpenRecordPerUnit ==
  \A u \in Ambulances :
    /\ Cardinality({id \in NonTerminalIds :
                      Has(kv[id], "ambulanceId") /\ kv[id].ambulanceId = u}) <= 1
    /\ \A id \in NonTerminalIds, caller \in Users :
         LET r == Exec(kv, Request("assign", id, caller, u, Omitted), Now)
         IN  (/\ kv[id].status = "pending"
              /\ Profile(u).status = "busy"
              /\ Has(Profile(u), "currentEmergency")
              /\ Profile(u).currentEmergency # id) =>
               /\ r.l.result # "ok"
               /\ r.kv = kv

\* C37: after a successful assign of a pending record the record's
\* ambulanceId names a user with the ambulance role and its hospitalId a
\* user with the hospital role, and only a profile with the ambulance role
\* has been marked busy, also when the request leaves an id out.
C37_AssignRolesMatch ==
  \A id \in Emergencies :
    \A in \in {x \in AssignInputs : x[1] # Anonymous /\ x[2] \notin Unregistered} :
      LET r == Exec(kv, Request("assign", id, in[1], in[2], in[3]), Now)
      IN  (kv[id].status = "pending" /\ r.l.result = "ok") =>
            /\ RoleOf(r.kv[id].ambulanceId) = "ambulance"
            /\ RoleOf(r.kv[id].hospitalId) = "hospital"
            /\ \A u \in Users :
                 (r.kv[UserKey(u)].status = "busy" /\ Profile(u).status # "busy") =>
                   RoleOf(u) = "ambulance"

\* C38: while a record stays at a gate, no request rewrites the stamp that
\* timeout-advance measures from: whenever a request sent at any later
\* minute leaves the record at the same gate, arrivedAtSceneAt (at
\* arrived_at_scene) or arrivedAtHospitalAt (at arrived_at_hospital) is
\* what it was.
C38_GateStampWrittenOnce ==
  \A id \in Emergencies :
    AtGate(id) =>
      \A req \in RequestsOn(id), now \in TryTimes(id) :
        LET r == Exec(kv, req, now)
        IN  (Has(r.kv, id) /\ r.kv[id].status = kv[id].status) =>
              r.kv[id][GateStamp(kv[id].status)] = kv[id][GateStamp(kv[id].status)]

\* C39: once the hook's cleanup has run at unmount the interval is cleared
\* and the hook starts no further refresh; while mounted every interval tick
\* starts exactly one refresh; and isConnected changes only when a tick's
\* refresh finishes on the mounted component, to TRUE when it succeeded and
\* to FALSE when it failed.
C39_PollingStopsOnUnmount ==
  [][/\ hook'.phase = "unmounted" =>
          /\ hook'.timers = {}
          /\ ~hook'.mountedRef
     /\ hook.phase = "unmounted" => Len(hook'.refreshes) = Len(hook.refreshes)
     /\ (hook.phase = "mounted" /\ \E t \in hook.timers : IntervalFires(t)) =>
          /\ Len(hook'.refreshes) = Len(hook.refreshes) + 1
          /\ hook'.refreshes[Len(hook'.refreshes)] = [by |-> "tick", state |-> "pending"]
          /\ \A n \in 1..Len(hook.refreshes) : hook'.refreshes[n] = hook.refreshes[n]
     /\ \A n \in 1..Len(hook.refreshes) :
          (/\ hook.phase = "mounted"
           /\ hook.refreshes[n].by = "tick"
           /\ hook.refreshes[n].state = "pending"
           /\ hook'.refreshes[n].state # "pending") =>
             hook'.isConnected = (hook'.refreshes[n].state = "resolved")
     /\ hook'.isConnected # hook.isConnected =>
          \E n \in 1..Len(hook.refreshes) :
            /\ hook.refreshes[n] = [by |-> "tick", state |-> "pending"]
            /\ hook'.refreshes[n].state # "pending"
    ]_vars

\* a tick's refresh was still running at unmount, after another tick had
\* failed
C39_Witness ==
  /\ hook.phase = "unmounted"
  /\ ~hook.isConnected
  /\ \E n \in 1..Len(hook.refreshes) :
       hook.refreshes[n] = [by |-> "tick", state |-> "pending"]

\* C40: a profile fetch always terminates: as long as every awaited call is
\* answered, a fetchProfile in progress is followed by the provider at rest,
\* whatever the profile endpoint and the session refresh answer.
C40_ProfileFetchTerminates ==
  (auth.pc = "fetchProfile") ~> (auth.pc = "idle")

====
